---- MODULE Spec2Model ----
(***************************************************************************)
(* Model of the OFAC-Search matching engine (utils/fuzzy-search.js, kept   *)
(* in src/unnamed/part_000): jaroSimilarity, jaroWinkler, normalizeName,   *)
(* calculateNameSimilarity, matchDOB, calculateAddressSimilarity,          *)
(* calculateMatchScore and searchSDN; and of the background worker         *)
(* (background.js) that keeps the stored SDN list up to date, with the     *)
(* functions of utils/ofac-data.js and utils/storage.js it calls.          *)
(*                                                                         *)
(* A JavaScript string is a sequence of one-character strings; the value   *)
(* `undefined` of an absent field is the token UNDEFINED.  JavaScript      *)
(* numbers are exact rationals <<numerator, denominator>> in lowest terms  *)
(* (the rounding error of IEEE-754 doubles is not modelled).               *)
(***************************************************************************)
EXTENDS Integers, Sequences, FiniteSets, TLC

VARIABLES
    s1, s2,            \* arguments of the similarity call under test
    simPc,             \* "args" -> "called" -> "swapped"
    jaroRes, jwRes,    \* jaroSimilarity(s1,s2), jaroWinkler(s1,s2)
    jaroSwap, jwSwap,  \* jaroSimilarity(s2,s1), jaroWinkler(s2,s1)
    searchParams,      \* the query handed to searchSDN
    sdnEntries,        \* the candidate collection handed to searchSDN
    scored,            \* the matchResult of each candidate in the latest call
    threshold,         \* threshold of the latest searchSDN call, -1 before the first
    matches,           \* list returned by the latest searchSDN call
    prevThreshold,     \* threshold of the call before it
    prevMatches,       \* list returned by the call before it
    tz,                \* time zone of the host: "west" of UTC, or "utc" and east of it
    thrown,            \* the latest searchSDN call ended in an uncaught TypeError
    fnName,            \* the field-level function under test, "none" when there is none
    fnArgs,            \* its arguments
    fnRet,             \* the value it returned
    fnPc,              \* "idle", or "args" -> "done"
    store,             \* uids held by the IndexedDB object store sdn_entries
    settings,          \* the settings the background worker keeps in the store
    now,               \* the clock, in hours
    bgPc,              \* position of the background worker inside its handler
    trigger,           \* the event whose handler runs, or ran last
    before,            \* store and settings as the handler found them
    downloaded,        \* uids of the list the latest download delivered
    outcome,           \* how the latest handler ended
    loaded,            \* what the popup's getAllSDNEntries read returned since the handler began
    resultsContent,    \* the card shown in the popup: "", "passed" or "match"
    currentSearchResult, \* the popup's record of the displayed search, for printing
    certificate        \* the certificate the popup printed last

simVars == <<s1, s2, simPc, jaroRes, jwRes, jaroSwap, jwSwap>>
searchVars == <<searchParams, sdnEntries, scored, threshold, matches, prevThreshold, prevMatches, tz, thrown>>
fieldVars == <<fnName, fnArgs, fnRet, fnPc>>
updateVars == <<store, settings, now, bgPc, trigger, before, downloaded, outcome, loaded>>
popupVars == <<resultsContent, currentSearchResult, certificate>>
vars == <<s1, s2, simPc, jaroRes, jwRes, jaroSwap, jwSwap, searchParams, sdnEntries, scored, threshold, matches, prevThreshold, prevMatches, tz, thrown, fnName, fnArgs, fnRet, fnPc, store, settings, now, bgPc, trigger, before, downloaded, outcome, loaded, resultsContent, currentSearchResult, certificate>>

(***************************************************************************)
(* Bounds of the model.                                                    *)
(***************************************************************************)
MaxLen == 3
MaxEntries == 2
MaxDays == 2

(***************************************************************************)
(* Values.                                                                 *)
(***************************************************************************)
UNDEFINED == <<"undefined">>

Falsy(x) == x = <<>> \/ x = UNDEFINED

Str(x) == IF x = UNDEFINED THEN <<>> ELSE x

Min(x, y) == IF x <= y THEN x ELSE y

Max(x, y) == IF x >= y THEN x ELSE y

Digits == {"0", "1", "2", "3", "4", "5", "6", "7", "8", "9"}

LowerLetters == {"a", "b", "c", "d", "e", "f", "g", "h", "i", "j", "k", "l", "m", "n", "o", "p", "q", "r", "s", "t", "u", "v", "w", "x", "y", "z"}

Whitespace == {" ", "\t"}

toLowerCaseChar(c) ==
    CASE c = "A" -> "a" [] c = "B" -> "b" [] c = "C" -> "c" [] c = "D" -> "d"
      [] c = "E" -> "e" [] c = "F" -> "f" [] c = "G" -> "g" [] c = "H" -> "h"
      [] c = "I" -> "i" [] c = "J" -> "j" [] c = "K" -> "k" [] c = "L" -> "l"
      [] c = "M" -> "m" [] c = "N" -> "n" [] c = "O" -> "o" [] c = "P" -> "p"
      [] c = "Q" -> "q" [] c = "R" -> "r" [] c = "S" -> "s" [] c = "T" -> "t"
      [] c = "U" -> "u" [] c = "V" -> "v" [] c = "W" -> "w" [] c = "X" -> "x"
      [] c = "Y" -> "y" [] c = "Z" -> "z" [] OTHER -> c

toLowerCase(s) == [i \in 1..Len(s) |-> toLowerCaseChar(s[i])]

(***************************************************************************)
(* Numbers: exact rationals in lowest terms with a positive denominator.   *)
(***************************************************************************)
RECURSIVE GCD(_, _)
GCD(x, y) == IF y = 0 THEN x ELSE GCD(y, x % y)

Abs(x) == IF x < 0 THEN -x ELSE x

Rat(n, d) ==
    LET g == GCD(Abs(n), d)
    IN  IF n = 0 THEN <<0, 1>> ELSE <<n \div g, d \div g>>

Zero == <<0, 1>>

One == <<1, 1>>

RAdd(x, y) ==
    LET g == GCD(x[2], y[2])
        l == (x[2] \div g) * y[2]
    IN  Rat(x[1] * (l \div x[2]) + y[1] * (l \div y[2]), l)

RMul(x, y) ==
    LET a == Rat(x[1], y[2])
        b == Rat(y[1], x[2])
    IN  Rat(a[1] * b[1], a[2] * b[2])

RSub(x, y) == RAdd(x, <<-y[1], y[2]>>)

RDiv(x, y) == RMul(x, <<y[2], y[1]>>)

RLeq(x, y) == x[1] * y[2] <= y[1] * x[2]

MathRound(x) == (2 * x[1] + x[2]) \div (2 * x[2])

(***************************************************************************)
(* jaroSimilarity                                                          *)
(***************************************************************************)
\* mutant: the window taken from the first string only
matchDistanceFirstOnly(len1, len2) == (len1 \div 2) - 1

matchDistance(len1, len2) == (Max(len1, len2) \div 2) - 1

\* The inner loop over j: the first position of the window that is not yet
\* matched and carries the character str1[i]; 0 when there is none.
findMatch(str1, str2, d, i, s2Matches) ==
    LET start == Max(1, i - d)
        end == Min(i + d, Len(str2))
        hits == {j \in start..end : j \notin s2Matches /\ str1[i] = str2[j]}
    IN  IF hits = {} THEN 0 ELSE CHOOSE j \in hits : \A k \in hits : j <= k

\* The outer loop over i: the matched positions of both strings.
RECURSIVE findMatches(_, _, _, _, _, _)
findMatches(str1, str2, d, i, s1Matches, s2Matches) ==
    IF i > Len(str1) THEN <<s1Matches, s2Matches>>
    ELSE LET j == findMatch(str1, str2, d, i, s2Matches)
         IN  IF j = 0
             THEN findMatches(str1, str2, d, i + 1, s1Matches, s2Matches)
             ELSE findMatches(str1, str2, d, i + 1, s1Matches \cup {i}, s2Matches \cup {j})

RECURSIVE nextMatched(_, _)
nextMatched(s2Matches, k) == IF k \in s2Matches THEN k ELSE nextMatched(s2Matches, k + 1)

RECURSIVE countTranspositions(_, _, _, _, _, _)
countTranspositions(str1, str2, s1Matches, s2Matches, i, k) ==
    IF i > Len(str1) THEN 0
    ELSE IF i \notin s1Matches
         THEN countTranspositions(str1, str2, s1Matches, s2Matches, i + 1, k)
         ELSE LET k2 == nextMatched(s2Matches, k)
              IN  (IF str1[i] # str2[k2] THEN 1 ELSE 0)
                  + countTranspositions(str1, str2, s1Matches, s2Matches, i + 1, k2 + 1)

\* mutant: every differing pair counted as a whole transposition
jaroFormulaFullTranspositions(m, t, len1, len2) ==
    RDiv(RAdd(RAdd(Rat(m, len1), Rat(m, len2)), Rat(m - t, m)), <<3, 1>>)

jaroFormula(m, t, len1, len2) ==
    RDiv(RAdd(RAdd(Rat(m, len1), Rat(m, len2)), Rat(2 * m - t, 2 * m)), <<3, 1>>)

\* mutant: the empty check made before the identity check
jaroSimilarityEmptyFirst(a, b) ==
    IF Falsy(a) \/ Falsy(b) THEN Zero
    ELSE IF a = b THEN One
    ELSE LET str1 == toLowerCase(a)
             str2 == toLowerCase(b)
             d == (Max(Len(str1), Len(str2)) \div 2) - 1
             ms == findMatches(str1, str2, d, 1, {}, {})
             m == Cardinality(ms[1])
             t == countTranspositions(str1, str2, ms[1], ms[2], 1, 1)
         IN  IF m = 0 THEN Zero
             ELSE RDiv(RAdd(RAdd(Rat(m, Len(str1)), Rat(m, Len(str2))), Rat(2 * m - t, 2 * m)), <<3, 1>>)

jaroSimilarity(a, b) ==
    IF a = b THEN One
    ELSE IF Falsy(a) \/ Falsy(b) THEN Zero
    ELSE LET str1 == toLowerCase(a)
             str2 == toLowerCase(b)
             d == matchDistance(Len(str1), Len(str2))
             ms == findMatches(str1, str2, d, 1, {}, {})
             m == Cardinality(ms[1])
             t == countTranspositions(str1, str2, ms[1], ms[2], 1, 1)
         IN  IF m = 0 THEN Zero ELSE jaroFormula(m, t, Len(str1), Len(str2))

(***************************************************************************)
(* jaroWinkler                                                             *)
(***************************************************************************)
DefaultP == <<1, 10>>

\* mutant: the loop goes on after the first differing character
RECURSIVE commonPrefixNoBreak(_, _, _, _)
commonPrefixNoBreak(str1, str2, i, maxPrefix) ==
    IF i > maxPrefix THEN 0
    ELSE (IF str1[i] = str2[i] THEN 1 ELSE 0) + commonPrefixNoBreak(str1, str2, i + 1, maxPrefix)

RECURSIVE commonPrefix(_, _, _, _)
commonPrefix(str1, str2, i, maxPrefix) ==
    IF i > maxPrefix THEN 0
    ELSE IF str1[i] = str2[i] THEN 1 + commonPrefix(str1, str2, i + 1, maxPrefix)
    ELSE 0

prefixLength(str1, str2) ==
    commonPrefix(str1, str2, 1, Min(4, Min(Len(str1), Len(str2))))

\* mutant: the boost not scaled by the distance left to 1
jaroWinklerPNoScale(a, b, p) ==
    IF a = b THEN One
    ELSE IF Falsy(a) \/ Falsy(b) THEN Zero
    ELSE RAdd(jaroSimilarity(a, b),
              RMul(<<prefixLength(toLowerCase(a), toLowerCase(b)), 1>>, p))

jaroWinklerP(a, b, p) ==
    IF a = b THEN One
    ELSE IF Falsy(a) \/ Falsy(b) THEN Zero
    ELSE LET jaroScore == jaroSimilarity(a, b)
             prefix == prefixLength(toLowerCase(a), toLowerCase(b))
         IN  RAdd(jaroScore, RMul(RMul(<<prefix, 1>>, p), RSub(One, jaroScore)))

jaroWinkler(a, b) == jaroWinklerP(a, b, DefaultP)

(***************************************************************************)
(* normalizeName                                                           *)
(***************************************************************************)
\* .replace(/[^a-z0-9\s]/g, " ")
replaceSpecial(s) ==
    [i \in 1..Len(s) |->
        IF s[i] \in LowerLetters \cup Digits \cup Whitespace THEN s[i] ELSE " "]

\* mutant: each white-space character is replaced on its own (/\s/g)
collapseWhitespaceEach(s) == [i \in 1..Len(s) |-> IF s[i] \in Whitespace THEN " " ELSE s[i]]

\* .replace(/\s+/g, " ")
RECURSIVE collapseWhitespace(_)
collapseWhitespace(s) ==
    IF s = <<>> THEN <<>>
    ELSE IF Head(s) \in Whitespace
         THEN IF Len(s) > 1 /\ s[2] \in Whitespace
              THEN collapseWhitespace(Tail(s))
              ELSE <<" ">> \o collapseWhitespace(Tail(s))
         ELSE <<Head(s)>> \o collapseWhitespace(Tail(s))

RECURSIVE trimStart(_)
trimStart(s) ==
    IF s # <<>> /\ Head(s) \in Whitespace THEN trimStart(Tail(s)) ELSE s

RECURSIVE trimEnd(_)
trimEnd(s) ==
    IF s # <<>> /\ s[Len(s)] \in Whitespace THEN trimEnd(SubSeq(s, 1, Len(s) - 1)) ELSE s

trim(s) == trimEnd(trimStart(s))

normalizeName(name) ==
    IF Falsy(name) THEN <<>>
    ELSE trim(collapseWhitespace(replaceSpecial(toLowerCase(name))))

(***************************************************************************)
(* calculateNameSimilarity                                                 *)
(***************************************************************************)
LastWeight == <<1, 2>>

FirstWeight == <<7, 20>>

MiddleWeight == <<3, 20>>

\* mutant: the plain Jaro similarity, without the prefix boost
partScoreJaro(search, sdn) ==
    IF search # <<>> /\ sdn # <<>> THEN jaroSimilarity(search, sdn) ELSE Zero

\* jaroWinkler of one name part, 0 unless both sides are non-empty
partScore(search, sdn) ==
    IF search # <<>> /\ sdn # <<>> THEN jaroWinkler(search, sdn) ELSE Zero

\* mutant: a middle name missing on either side counts with similarity 0
calculateNameSimilarityPenalizeMiddle(searchName, sdnName) ==
    LET nsFirst == normalizeName(searchName.firstName)
        nsMiddle == normalizeName(searchName.middleName)
        nsLast == normalizeName(searchName.lastName)
        ndFirst == normalizeName(sdnName.firstName)
        ndMiddle == normalizeName(sdnName.middleName)
        ndLast == normalizeName(sdnName.lastName)
        lastScore == partScore(nsLast, ndLast)
        firstScore == partScore(nsFirst, ndFirst)
        middleNull == FALSE
        middleScore == partScore(nsMiddle, ndMiddle)
        w1 == IF nsLast # <<>> THEN RMul(lastScore, LastWeight) ELSE Zero
        t1 == IF nsLast # <<>> THEN LastWeight ELSE Zero
        w2 == IF nsFirst # <<>> THEN RAdd(w1, RMul(firstScore, FirstWeight)) ELSE w1
        t2 == IF nsFirst # <<>> THEN RAdd(t1, FirstWeight) ELSE t1
        weightedScore == IF ~middleNull THEN RAdd(w2, RMul(middleScore, MiddleWeight)) ELSE w2
        totalWeight == IF ~middleNull THEN RAdd(t2, MiddleWeight) ELSE t2
        finalScore == IF totalWeight[1] > 0
                      THEN RMul(RDiv(weightedScore, totalWeight), <<100, 1>>)
                      ELSE Zero
    IN  MathRound(finalScore)

\* mutant: only a middle name missing in the query is left out
calculateNameSimilarityOneSidedMiddle(searchName, sdnName) ==
    LET nsFirst == normalizeName(searchName.firstName)
        nsMiddle == normalizeName(searchName.middleName)
        nsLast == normalizeName(searchName.lastName)
        ndFirst == normalizeName(sdnName.firstName)
        ndMiddle == normalizeName(sdnName.middleName)
        ndLast == normalizeName(sdnName.lastName)
        lastScore == partScore(nsLast, ndLast)
        firstScore == partScore(nsFirst, ndFirst)
        middleNull == nsMiddle = <<>>
        middleScore == partScore(nsMiddle, ndMiddle)
        w1 == IF nsLast # <<>> THEN RMul(lastScore, LastWeight) ELSE Zero
        t1 == IF nsLast # <<>> THEN LastWeight ELSE Zero
        w2 == IF nsFirst # <<>> THEN RAdd(w1, RMul(firstScore, FirstWeight)) ELSE w1
        t2 == IF nsFirst # <<>> THEN RAdd(t1, FirstWeight) ELSE t1
        weightedScore == IF ~middleNull THEN RAdd(w2, RMul(middleScore, MiddleWeight)) ELSE w2
        totalWeight == IF ~middleNull THEN RAdd(t2, MiddleWeight) ELSE t2
        finalScore == IF totalWeight[1] > 0
                      THEN RMul(RDiv(weightedScore, totalWeight), <<100, 1>>)
                      ELSE Zero
    IN  MathRound(finalScore)

\* mutant: a first or last name counts only when both sides have it
calculateNameSimilarityBothSides(searchName, sdnName) ==
    LET nsFirst == normalizeName(searchName.firstName)
        nsMiddle == normalizeName(searchName.middleName)
        nsLast == normalizeName(searchName.lastName)
        ndFirst == normalizeName(sdnName.firstName)
        ndMiddle == normalizeName(sdnName.middleName)
        ndLast == normalizeName(sdnName.lastName)
        lastScore == partScore(nsLast, ndLast)
        firstScore == partScore(nsFirst, ndFirst)
        middleNull == ~(nsMiddle # <<>> /\ ndMiddle # <<>>)
        middleScore == partScore(nsMiddle, ndMiddle)
        w1 == IF nsLast # <<>> /\ ndLast # <<>> THEN RMul(lastScore, LastWeight) ELSE Zero
        t1 == IF nsLast # <<>> /\ ndLast # <<>> THEN LastWeight ELSE Zero
        w2 == IF nsFirst # <<>> /\ ndFirst # <<>> THEN RAdd(w1, RMul(firstScore, FirstWeight)) ELSE w1
        t2 == IF nsFirst # <<>> /\ ndFirst # <<>> THEN RAdd(t1, FirstWeight) ELSE t1
        weightedScore == IF ~middleNull THEN RAdd(w2, RMul(middleScore, MiddleWeight)) ELSE w2
        totalWeight == IF ~middleNull THEN RAdd(t2, MiddleWeight) ELSE t2
        finalScore == IF totalWeight[1] > 0
                      THEN RMul(RDiv(weightedScore, totalWeight), <<100, 1>>)
                      ELSE Zero
    IN  MathRound(finalScore)

calculateNameSimilarity(searchName, sdnName) ==
    LET nsFirst == normalizeName(searchName.firstName)
        nsMiddle == normalizeName(searchName.middleName)
        nsLast == normalizeName(searchName.lastName)
        ndFirst == normalizeName(sdnName.firstName)
        ndMiddle == normalizeName(sdnName.middleName)
        ndLast == normalizeName(sdnName.lastName)
        lastScore == partScore(nsLast, ndLast)
        firstScore == partScore(nsFirst, ndFirst)
        middleNull == ~(nsMiddle # <<>> /\ ndMiddle # <<>>)
        middleScore == partScore(nsMiddle, ndMiddle)
        w1 == IF nsLast # <<>> THEN RMul(lastScore, LastWeight) ELSE Zero
        t1 == IF nsLast # <<>> THEN LastWeight ELSE Zero
        w2 == IF nsFirst # <<>> THEN RAdd(w1, RMul(firstScore, FirstWeight)) ELSE w1
        t2 == IF nsFirst # <<>> THEN RAdd(t1, FirstWeight) ELSE t1
        weightedScore == IF ~middleNull THEN RAdd(w2, RMul(middleScore, MiddleWeight)) ELSE w2
        totalWeight == IF ~middleNull THEN RAdd(t2, MiddleWeight) ELSE t2
        finalScore == IF totalWeight[1] > 0
                      THEN RMul(RDiv(weightedScore, totalWeight), <<100, 1>>)
                      ELSE Zero
    IN  MathRound(finalScore)

(***************************************************************************)
(* matchDOB                                                                *)
(***************************************************************************)
\* .replace(/\D/g, "")
digitsOnly(s) == SelectSeq(s, LAMBDA c : c \in Digits)

DigitVal(c) ==
    CASE c = "0" -> 0 [] c = "1" -> 1 [] c = "2" -> 2 [] c = "3" -> 3 [] c = "4" -> 4
      [] c = "5" -> 5 [] c = "6" -> 6 [] c = "7" -> 7 [] c = "8" -> 8 [] c = "9" -> 9

RECURSIVE NumVal(_)
NumVal(s) == IF s = <<>> THEN 0 ELSE 10 * NumVal(SubSeq(s, 1, Len(s) - 1)) + DigitVal(s[Len(s)])

IsLeap(y) == (y % 4 = 0 /\ y % 100 # 0) \/ y % 400 = 0

DaysInMonth(y, m) ==
    IF m = 2 THEN (IF IsLeap(y) THEN 29 ELSE 28)
    ELSE IF m \in {4, 6, 9, 11} THEN 30 ELSE 31

NaN == <<>>

ValidDate(y, m, d, utc) ==
    IF m \in 1..12 /\ d \in 1..DaysInMonth(y, m) THEN <<y, m, d, utc>> ELSE NaN

AllDigits(s, from, to) == \A i \in from..to : s[i] \in Digits

\* new Date(string) for the two shapes the dates of the model take: the ISO
\* date-only form YYYY-MM-DD is midnight UTC, the form MM/DD/YYYY is midnight
\* local time; a string of neither shape gives an invalid date.
DateParse(s) ==
    IF Len(s) = 10 /\ s[5] = "-" /\ s[8] = "-"
       /\ AllDigits(s, 1, 4) /\ AllDigits(s, 6, 7) /\ AllDigits(s, 9, 10)
    THEN ValidDate(NumVal(SubSeq(s, 1, 4)), NumVal(SubSeq(s, 6, 7)), NumVal(SubSeq(s, 9, 10)), TRUE)
    ELSE IF Len(s) = 10 /\ s[3] = "/" /\ s[6] = "/"
            /\ AllDigits(s, 1, 2) /\ AllDigits(s, 4, 5) /\ AllDigits(s, 7, 10)
    THEN ValidDate(NumVal(SubSeq(s, 7, 10)), NumVal(SubSeq(s, 1, 2)), NumVal(SubSeq(s, 4, 5)), FALSE)
    ELSE NaN

PrevDay(y, m, d) ==
    IF d > 1 THEN <<y, m, d - 1>>
    ELSE IF m > 1 THEN <<y, m - 1, DaysInMonth(y, m - 1)>>
    ELSE <<y - 1, 12, 31>>

\* <<getFullYear(), getMonth(), getDate()>> of a valid date in time zone zone
LocalDate(date, zone) ==
    IF date[4] /\ zone = "west" THEN PrevDay(date[1], date[2], date[3])
    ELSE <<date[1], date[2], date[3]>>

matchDOB(searchDOB, sdnDOB, zone) ==
    IF Falsy(searchDOB) \/ Falsy(sdnDOB) THEN FALSE
    ELSE IF digitsOnly(searchDOB) = digitsOnly(sdnDOB) THEN TRUE
    ELSE LET search == DateParse(searchDOB)
             sdn == DateParse(sdnDOB)
         IN  IF search = NaN \/ sdn = NaN THEN FALSE
             ELSE LocalDate(search, zone) = LocalDate(sdn, zone)

(***************************************************************************)
(* calculateAddressSimilarity                                              *)
(***************************************************************************)
addressPart(search, sdn, weight) ==
    IF ~Falsy(search) /\ ~Falsy(sdn)
    THEN RMul(jaroWinkler(normalizeName(search), normalizeName(sdn)), <<weight, 1>>)
    ELSE Zero

addressFields(searchAddr, sdnAddr) ==
    Cardinality({f \in {"country", "state", "city", "address"} :
                    ~Falsy(searchAddr[f]) /\ ~Falsy(sdnAddr[f])})

calculateAddressSimilarity(searchAddr, sdnAddr) ==
    LET totalScore ==
            RAdd(RAdd(addressPart(searchAddr.country, sdnAddr.country, 40),
                      addressPart(searchAddr.state, sdnAddr.state, 20)),
                 RAdd(addressPart(searchAddr.city, sdnAddr.city, 25),
                      addressPart(searchAddr.address, sdnAddr.address, 15)))
    IN  IF addressFields(searchAddr, sdnAddr) > 0 THEN MathRound(totalScore) ELSE 0

(***************************************************************************)
(* calculateMatchScore                                                     *)
(***************************************************************************)
DobReason == [text |-> "Date of birth matches", arg |-> <<>>]

IdReason(type) == [text |-> "ID number matches", arg |-> type]

\* mutant: the loop has no break, the last identifier that matches wins
RECURSIVE lastIdMatch(_, _, _)
lastIdMatch(normalizedSearchId, ids, i) ==
    IF i > Len(ids) THEN 0
    ELSE LET later == lastIdMatch(normalizedSearchId, ids, i + 1)
         IN  IF later # 0 THEN later
             ELSE IF normalizedSearchId = digitsOnly(Str(ids[i].number)) THEN i
             ELSE 0

\* the loop over sdnEntry.ids: index of the first identifier whose digits
\* equal those of the query, 0 when there is none
RECURSIVE firstIdMatch(_, _, _)
firstIdMatch(normalizedSearchId, ids, i) ==
    IF i > Len(ids) THEN 0
    ELSE IF normalizedSearchId = digitsOnly(Str(ids[i].number)) THEN i
    ELSE firstIdMatch(normalizedSearchId, ids, i + 1)

\* mutant: the name score enters the sum with weight 1
overallScoreFullName(nameScore, dobMatch, addressScore, idMatch) ==
    LET sum == RAdd(RAdd(Rat(nameScore, 1), IF dobMatch THEN <<20, 1>> ELSE Zero),
                    RAdd(Rat(addressScore * 3, 20), IF idMatch THEN <<5, 1>> ELSE Zero))
    IN  Min(100, MathRound(sum))

\* mutant: Math.max in the place of Math.min
overallScoreMax(nameScore, dobMatch, addressScore, idMatch) ==
    LET sum == RAdd(RAdd(Rat(nameScore * 3, 5), IF dobMatch THEN <<20, 1>> ELSE Zero),
                    RAdd(Rat(addressScore * 3, 20), IF idMatch THEN <<5, 1>> ELSE Zero))
    IN  Max(100, MathRound(sum))

\* mutant: the identifier bonus is left out of the sum
overallScoreNoId(nameScore, dobMatch, addressScore, idMatch) ==
    LET sum == RAdd(RAdd(Rat(nameScore * 3, 5), IF dobMatch THEN <<20, 1>> ELSE Zero),
                    Rat(addressScore * 3, 20))
    IN  Min(100, MathRound(sum))

overallScore(nameScore, dobMatch, addressScore, idMatch) ==
    LET sum == RAdd(RAdd(Rat(nameScore * 3, 5), IF dobMatch THEN <<20, 1>> ELSE Zero),
                    RAdd(Rat(addressScore * 3, 20), IF idMatch THEN <<5, 1>> ELSE Zero))
    IN  Min(100, MathRound(sum))

\* mutant: the identifier is compared, and its reason pushed, before the date of birth
calculateMatchScoreIdReasonFirst(params, sdnEntry, zone) ==
    LET nameScore == calculateNameSimilarity(params, sdnEntry)
        dobMatch == IF ~Falsy(params.dob) THEN matchDOB(params.dob, sdnEntry.dob, zone) ELSE FALSE
        addressScore ==
            IF ~Falsy(params.country) \/ ~Falsy(params.city) \/ ~Falsy(params.state)
            THEN calculateAddressSimilarity(params, sdnEntry)
            ELSE 0
        idHit == IF ~Falsy(params.idNumber) /\ sdnEntry.ids.present
                 THEN firstIdMatch(digitsOnly(params.idNumber), sdnEntry.ids.list, 1)
                 ELSE 0
        idMatch == idHit # 0
    IN  [score |-> overallScore(nameScore, dobMatch, addressScore, idMatch),
         nameScore |-> nameScore,
         dobMatch |-> dobMatch,
         addressScore |-> addressScore,
         idMatch |-> idMatch,
         details |-> (IF idMatch THEN <<IdReason(sdnEntry.ids.list[idHit].type)>> ELSE <<>>)
                     \o (IF dobMatch THEN <<DobReason>> ELSE <<>>)]

calculateMatchScore(params, sdnEntry, zone) ==
    LET nameScore == calculateNameSimilarity(params, sdnEntry)
        dobMatch == IF ~Falsy(params.dob) THEN matchDOB(params.dob, sdnEntry.dob, zone) ELSE FALSE
        addressScore ==
            IF ~Falsy(params.country) \/ ~Falsy(params.city) \/ ~Falsy(params.state)
            THEN calculateAddressSimilarity(params, sdnEntry)
            ELSE 0
        idHit == IF ~Falsy(params.idNumber) /\ sdnEntry.ids.present
                 THEN firstIdMatch(digitsOnly(params.idNumber), sdnEntry.ids.list, 1)
                 ELSE 0
        idMatch == idHit # 0
    IN  [score |-> overallScore(nameScore, dobMatch, addressScore, idMatch),
         nameScore |-> nameScore,
         dobMatch |-> dobMatch,
         addressScore |-> addressScore,
         idMatch |-> idMatch,
         details |-> (IF dobMatch THEN <<DobReason>> ELSE <<>>)
                     \o (IF idMatch THEN <<IdReason(sdnEntry.ids.list[idHit].type)>> ELSE <<>>)]

\* a null element of sdnEntry.ids
NullId == [isNull |-> TRUE, type |-> UNDEFINED, number |-> UNDEFINED]

IsNull(id) == "isNull" \in DOMAIN id

\* the loop over sdnEntry.ids reads id.number of a null element before it
\* reaches an identifier that matches: an uncaught TypeError
RECURSIVE idLoopThrows(_, _, _)
idLoopThrows(normalizedSearchId, ids, i) ==
    IF i > Len(ids) THEN FALSE
    ELSE IF IsNull(ids[i]) THEN TRUE
    ELSE IF normalizedSearchId = digitsOnly(Str(ids[i].number)) THEN FALSE
    ELSE idLoopThrows(normalizedSearchId, ids, i + 1)

\* calculateMatchScore(params, sdnEntry) throws
scoreThrows(params, sdnEntry) ==
    /\ ~Falsy(params.idNumber)
    /\ sdnEntry.ids.present
    /\ idLoopThrows(digitsOnly(params.idNumber), sdnEntry.ids.list, 1)

(***************************************************************************)
(* searchSDN                                                               *)
(***************************************************************************)
\* { entry, ...matchResult }
matchEntry(entry, r) ==
    [entry |-> entry, score |-> r.score, nameScore |-> r.nameScore, dobMatch |-> r.dobMatch,
     addressScore |-> r.addressScore, idMatch |-> r.idMatch, details |-> r.details]

\* the matchResult computed for each entry by the for loop
scoreAll(params, entries, zone) ==
    [i \in 1..Len(entries) |-> calculateMatchScore(params, entries[i], zone)]

\* mutant: a score equal to the threshold is dropped
RECURSIVE collectMatchesStrict(_, _, _, _)
collectMatchesStrict(entries, results, t, i) ==
    IF i > Len(entries) THEN <<>>
    ELSE (IF results[i].score > t THEN <<matchEntry(entries[i], results[i])>> ELSE <<>>)
         \o collectMatchesStrict(entries, results, t, i + 1)

\* mutant: the comparison with the threshold turned around
RECURSIVE collectMatchesSwapped(_, _, _, _)
collectMatchesSwapped(entries, results, t, i) ==
    IF i > Len(entries) THEN <<>>
    ELSE (IF t >= results[i].score THEN <<matchEntry(entries[i], results[i])>> ELSE <<>>)
         \o collectMatchesSwapped(entries, results, t, i + 1)

\* the for loop: the results at or above the threshold, in input order
RECURSIVE collectMatches(_, _, _, _)
collectMatches(entries, results, t, i) ==
    IF i > Len(entries) THEN <<>>
    ELSE (IF results[i].score >= t THEN <<matchEntry(entries[i], results[i])>> ELSE <<>>)
         \o collectMatches(entries, results, t, i + 1)

\* mutant: an unstable sort, equal scores come out in reverse input order
RECURSIVE insertSortedUnstable(_, _)
insertSortedUnstable(sorted, x) ==
    IF sorted = <<>> THEN <<x>>
    ELSE IF Head(sorted).score - x.score <= 0
         THEN <<x>> \o sorted
         ELSE <<Head(sorted)>> \o insertSortedUnstable(Tail(sorted), x)

\* Array.prototype.sort is stable: x goes behind every element that does not
\* have to come after it under the comparator (b.score - a.score)
RECURSIVE insertSorted(_, _)
insertSorted(sorted, x) ==
    IF sorted = <<>> THEN <<x>>
    ELSE IF Head(sorted).score - x.score < 0
         THEN <<x>> \o sorted
         ELSE <<Head(sorted)>> \o insertSorted(Tail(sorted), x)

RECURSIVE sortByScore(_, _)
sortByScore(list, n) ==
    IF n = 0 THEN <<>> ELSE insertSorted(sortByScore(list, n - 1), list[n])

\* the loop's matches, sorted: the value searchSDN returns
sortedMatches(entries, results, t) ==
    LET found == collectMatches(entries, results, t, 1)
    IN  sortByScore(found, Len(found))

searchSDN(params, entries, t, zone) ==
    sortedMatches(entries, scoreAll(params, entries, zone), t)

\* the for loop has no try/catch: the first candidate whose scoring throws
\* ends the call
searchThrows(params, entries) ==
    \E i \in 1..Len(entries) : scoreThrows(params, entries[i])

\* the query as a call leaves it: searchSDN and the functions it calls only read it
paramsAfterSearch(params) == params

\* mutant: the loop takes each candidate out of the collection (shift)
entriesAfterSearchConsumed(entries) == <<>>

\* the candidate collection as a call leaves it: the matches are pushed to a
\* new array, and it is that array which is sorted
entriesAfterSearch(entries) == entries

(***************************************************************************)
(* The background worker (background.js) and what it uses of               *)
(* utils/ofac-data.js and utils/storage.js.  Times are in hours.           *)
(***************************************************************************)
DefaultMaxAgeHours == 24

\* mutant: a list exactly maxAgeHours old is not yet due
needsUpdateStrict(lastUpdateDate, clock) ==
    IF lastUpdateDate = -1 THEN TRUE
    ELSE clock - lastUpdateDate > DefaultMaxAgeHours

\* needsUpdate(lastUpdateDate) read at time clock; -1 is the null that
\* getSetting returns for a key that was never saved
needsUpdate(lastUpdateDate, clock) ==
    IF lastUpdateDate = -1 THEN TRUE
    ELSE clock - lastUpdateDate >= DefaultMaxAgeHours

getSDNCount(entries) == Cardinality(entries)

\* new Date().toISOString().split("T")[0]: the day of the clock
publishDateAt(clock) == clock \div 24

(***************************************************************************)
(* The popup (popup.js): the result card and the print button.             *)
(***************************************************************************)
\* the card displayResults writes into resultsContent
resultCard(found) == IF Len(found) = 0 THEN "passed" ELSE "match"

\* mutant: both result cards carry the print button
printButtonShownAnyCard(content) == content # ""

\* the button #printCertBtn is in the DOM: only the markup of the "NO MATCH
\* FOUND - CLEARED" card holds it
printButtonShown(content) == content = "passed"

(***************************************************************************)
(* Inputs of the model.                                                    *)
(***************************************************************************)
SimAlphabet == {"a", "b", "A"}

RECURSIVE StringsUpTo(_)
StringsUpTo(n) ==
    IF n = 0 THEN {<<>>}
    ELSE LET shorter == StringsUpTo(n - 1)
         IN  shorter \cup {Append(s, c) : s \in shorter, c \in SimAlphabet}

martha == <<"m", "a", "r", "t", "h", "a">>

marhta == <<"m", "a", "r", "h", "t", "a">>

SimInputs == StringsUpTo(MaxLen) \cup {martha, marhta}

NoResult == <<-1, 1>>

Dob1975 == <<"1", "9", "7", "5", "-", "0", "1", "-", "0", "1">>

Dob1975US == <<"0", "1", "/", "0", "1", "/", "1", "9", "7", "5">>

Smith == <<"S", "m", "i", "t", "h">>

SMITH == <<"S", "M", "I", "T", "H">>

John == <<"J", "o", "h", "n">>

JOHN == <<"J", "O", "H", "N">>

Jon == <<"J", "o", "n">>

Alice == <<"A", "l", "i", "c", "e">>

Jones == <<"J", "o", "n", "e", "s">>

Iran == <<"I", "r", "a", "n">>

Iraq == <<"I", "r", "a", "q">>

IdType == <<"I", "D">>

Passport == <<"P", "a", "s", "s", "p", "o", "r", "t">>

NoIds == [present |-> FALSE, list |-> <<>>]

Ids(list) == [present |-> TRUE, list |-> list]

Query(first, last, dob, country, idNumber) ==
    [firstName |-> first, middleName |-> <<>>, lastName |-> last, dob |-> dob,
     address |-> <<>>, city |-> <<>>, state |-> <<>>, country |-> country,
     idNumber |-> idNumber]

Entry(uid, first, middle, last, dob, country, ids) ==
    [uid |-> uid, firstName |-> first, middleName |-> middle, lastName |-> last,
     dob |-> dob, address |-> UNDEFINED, city |-> UNDEFINED, state |-> UNDEFINED,
     country |-> country, ids |-> ids]

QueryJohnSmith == Query(John, Smith, Dob1975, <<>>, <<>>)

QueryFull == Query(John, Smith, Dob1975, Iran, <<"A", "-", "1", "2">>)

QueryEmpty == Query(<<>>, <<>>, <<>>, <<>>, <<>>)

QueryJon == Query(Jon, Smith, <<>>, Iran, <<>>)

Queries == {QueryJohnSmith, QueryFull, QueryEmpty, QueryJon}

EntryJonSmith == Entry(1, Jon, UNDEFINED, Smith, Dob1975, UNDEFINED, NoIds)

EntryAliceJones == Entry(2, Alice, UNDEFINED, Jones, UNDEFINED, UNDEFINED, NoIds)

EntryJohnIran ==
    Entry(3, JOHN, <<>>, SMITH, Dob1975, Iran, Ids(<<[type |-> IdType, number |-> <<"A", "1", "2">>]>>))

EntryJonUS == Entry(4, Jon, <<>>, Smith, Dob1975US, Iran, Ids(<<>>))

EntryJohnIraq ==
    Entry(5, John, <<"A", ".">>, Smith, Dob1975, Iraq,
          Ids(<<[type |-> IdType, number |-> UNDEFINED],
                [type |-> Passport, number |-> <<"1", "2">>]>>))

EntryPool == {EntryJonSmith, EntryAliceJones, EntryJohnIran, EntryJonUS, EntryJohnIraq}

RECURSIVE EntryLists(_)
EntryLists(n) ==
    IF n = 0 THEN {<<>>}
    ELSE LET shorter == EntryLists(n - 1)
         IN  shorter \cup {Append(l, e) : l \in shorter, e \in EntryPool}

\* inputs of normalizeName
NormAlphabet == {"a", "B", "1", " ", "\t", "-"}

RECURSIVE NormStrings(_)
NormStrings(n) ==
    IF n = 0 THEN {<<>>}
    ELSE LET shorter == NormStrings(n - 1)
         IN  shorter \cup {Append(s, c) : s \in shorter, c \in NormAlphabet}

OBrien == <<"O", "'", "B", "r", "i", "e", "n", "-", "S", "m", "i", "t", "h", " ", " ", "J", "r", ".">>

OBrienNormalized == <<"o", " ", "b", "r", "i", "e", "n", " ", "s", "m", "i", "t", "h", " ", "j", "r">>

NormInputs == NormStrings(MaxLen) \cup {OBrien, UNDEFINED}

\* inputs of calculateNameSimilarity
Dash == <<"-">>

NameParts == {<<>>, Jon, John, Dash}

MiddleParts == {<<>>, UNDEFINED, <<"A", ".">>}

Name(first, middle, last) == [firstName |-> first, middleName |-> middle, lastName |-> last]

NameInputs == {Name(f, m, l) : f \in NameParts, m \in MiddleParts, l \in NameParts}

\* inputs of matchDOB
Dob1980 == <<"1", "9", "8", "0", "-", "0", "5", "-", "1", "2">>

Dob1980US == <<"0", "5", "/", "1", "2", "/", "1", "9", "8", "0">>

Dob1980Next == <<"1", "9", "8", "0", "-", "0", "5", "-", "1", "3">>

NotApplicable == <<"n", "/", "a">>

Unknown == <<"u", "n", "k", "n", "o", "w", "n">>

DobInputs == {<<>>, UNDEFINED, Dob1980, Dob1980US, Dob1980Next, NotApplicable, Unknown}

\* inputs of calculateMatchScore
MainStreet == <<"1", " ", "M", "a", "i", "n">>

Paris == <<"P", "a", "r", "i", "s">>

QueryStreetOnly == [Query(John, Smith, <<>>, <<>>, <<>>) EXCEPT !.address = MainStreet]

QueryCountryStreet == [Query(John, Smith, Dob1975, Iran, <<>>) EXCEPT !.address = MainStreet]

QueryPunctCity == [Query(John, Smith, <<>>, <<>>, <<>>) EXCEPT !.city = Dash]

QueryParis == [Query(Jon, Smith, Dob1975US, <<>>, <<"1", "2">>) EXCEPT !.city = Paris]

QueryIdNoDigits == Query(John, Smith, Dob1975, <<>>, <<"A", "B", "C">>)

ScoreQueries ==
    {QueryStreetOnly, QueryCountryStreet, QueryPunctCity, QueryParis, QueryIdNoDigits,
     QueryFull, QueryJohnSmith, QueryEmpty}

EntryMainStreet ==
    [Entry(7, John, <<>>, Smith, Dob1975, Iran,
           Ids(<<[type |-> IdType, number |-> <<"A", "1", "2">>],
                 [type |-> Passport, number |-> <<"1", "2">>]>>))
        EXCEPT !.address = MainStreet, !.city = <<".">>]

EntryParis ==
    [Entry(8, Jon, <<>>, Smith, UNDEFINED, Iraq,
           Ids(<<[type |-> Passport, number |-> <<"X", "Y">>],
                 [type |-> IdType, number |-> <<"1", "-", "2">>]>>))
        EXCEPT !.city = Paris, !.address = <<>>]

ScoreEntries == {EntryMainStreet, EntryParis, EntryJohnIraq, EntryJohnIran, EntryJonSmith}

\* inputs of the searches over a collection with a malformed candidate
EntryNullId == Entry(6, Alice, <<>>, Jones, UNDEFINED, UNDEFINED, Ids(<<NullId>>))

RobustPool == {EntryJohnIran, EntryNullId, EntryAliceJones}

RECURSIVE RobustLists(_)
RobustLists(n) ==
    IF n = 0 THEN {<<>>}
    ELSE LET shorter == RobustLists(n - 1)
         IN  shorter \cup {Append(l, e) : l \in shorter, e \in RobustPool}

RobustQueries == {QueryFull, QueryJohnSmith}

\* the lists a download can deliver, as sets of uids
DownloadLists == SUBSET (1..MaxEntries)

\* hours the clock advances in one step
ClockSteps == {12, 24}

\* the forms submitted in the popup
PopupQueries == {QueryFull, QueryJohnSmith, QueryJon, QueryEmpty}

\* the lists the popup can have loaded
PopupPool == {EntryJohnIran, EntryAliceJones, EntryJonUS}

RECURSIVE PopupLists(_)
PopupLists(n) ==
    IF n = 0 THEN {<<>>}
    ELSE LET shorter == PopupLists(n - 1)
         IN  shorter \cup {Append(l, e) : l \in shorter, e \in PopupPool}

DefaultThreshold == 85

Thresholds == {0, 80, 91}

TimeZones == {"west", "utc"}

(***************************************************************************)
(* The state machine: a run either exercises the similarity functions on   *)
(* one pair of strings (SpecSimilarity), or calls searchSDN repeatedly on  *)
(* one query and one candidate collection (SpecSearch; SpecRobust when the *)
(* collection may hold a malformed candidate); Spec covers both.  A run of *)
(* SpecFields makes one call of a field-level function, a run of SpecScore  *)
(* one call of calculateMatchScore, a run of SpecUpdate follows the        *)
(* background worker through its handlers with the popup reading the store *)
(* in between, and a run of SpecPopup follows the popup through searches,  *)
(* clearing of the results and printing.                                   *)
(***************************************************************************)
NoSettings ==
    [lastUpdate |-> -1, publishDate |-> -1, entryCount |-> -1,
     updateStatus |-> "absent", lastError |-> "absent"]

SimilarityUnused ==
    /\ s1 = <<>> /\ s2 = <<>>
    /\ simPc = "idle"
    /\ jaroRes = NoResult /\ jwRes = NoResult
    /\ jaroSwap = NoResult /\ jwSwap = NoResult

SearchUnused ==
    /\ searchParams = QueryEmpty
    /\ sdnEntries = <<>>
    /\ scored = <<>>
    /\ threshold = -1 /\ matches = <<>>
    /\ prevThreshold = -1 /\ prevMatches = <<>>
    /\ thrown = FALSE

FieldsUnused ==
    /\ fnName = "none" /\ fnArgs = <<>> /\ fnRet = <<>> /\ fnPc = "idle"

NotLoaded == [taken |-> FALSE, list |-> {}, during |-> "idle"]

UpdateUnused ==
    /\ store = {} /\ settings = NoSettings
    /\ now = 0
    /\ bgPc = "idle" /\ trigger = "none"
    /\ before = [store |-> {}, settings |-> NoSettings, at |-> 0]
    /\ downloaded = {}
    /\ outcome = "none"
    /\ loaded = NotLoaded

NoSearchResult == [present |-> FALSE, searchParams |-> QueryEmpty, matches |-> <<>>]

NoCertificate == [printed |-> FALSE, searchParams |-> QueryEmpty, matchCount |-> 0]

PopupUnused ==
    /\ resultsContent = ""
    /\ currentSearchResult = NoSearchResult
    /\ certificate = NoCertificate

InitSimilarity ==
    /\ s1 \in SimInputs
    /\ s2 \in SimInputs
    /\ simPc = "args"
    /\ jaroRes = NoResult /\ jwRes = NoResult
    /\ jaroSwap = NoResult /\ jwSwap = NoResult
    /\ SearchUnused
    /\ tz = "utc"
    /\ FieldsUnused
    /\ UpdateUnused
    /\ PopupUnused

InitSearch ==
    /\ SimilarityUnused
    /\ searchParams \in Queries
    /\ sdnEntries \in EntryLists(MaxEntries)
    /\ scored = <<>>
    /\ threshold = -1 /\ matches = <<>>
    /\ prevThreshold = -1 /\ prevMatches = <<>>
    /\ thrown = FALSE
    /\ tz \in TimeZones
    /\ FieldsUnused
    /\ UpdateUnused
    /\ PopupUnused

\* searches over a collection that may hold a malformed candidate
InitRobust ==
    /\ SimilarityUnused
    /\ searchParams \in RobustQueries
    /\ sdnEntries \in RobustLists(MaxEntries)
    /\ scored = <<>>
    /\ threshold = -1 /\ matches = <<>>
    /\ prevThreshold = -1 /\ prevMatches = <<>>
    /\ thrown = FALSE
    /\ tz \in TimeZones
    /\ FieldsUnused
    /\ UpdateUnused
    /\ PopupUnused

\* the background worker of a fresh profile: empty store, no settings
InitUpdate ==
    /\ SimilarityUnused
    /\ SearchUnused
    /\ tz = "utc"
    /\ FieldsUnused
    /\ UpdateUnused
    /\ PopupUnused

\* the popup after init(): sdnEntries holds the list loadSDNEntries read
InitPopup ==
    /\ SimilarityUnused
    /\ searchParams = QueryEmpty
    /\ sdnEntries \in PopupLists(MaxEntries)
    /\ scored = <<>>
    /\ threshold = -1 /\ matches = <<>>
    /\ prevThreshold = -1 /\ prevMatches = <<>>
    /\ thrown = FALSE
    /\ tz \in TimeZones
    /\ FieldsUnused
    /\ UpdateUnused
    /\ PopupUnused

Init == InitSimilarity \/ InitSearch

\* one call of normalizeName, calculateNameSimilarity or matchDOB
InitFields ==
    /\ SimilarityUnused
    /\ SearchUnused
    /\ UpdateUnused
    /\ PopupUnused
    /\ fnPc = "args"
    /\ fnRet = <<>>
    /\ \/ /\ fnName = "normalizeName"
          /\ fnArgs \in {<<t>> : t \in NormInputs}
          /\ tz = "utc"
       \/ /\ fnName = "calculateNameSimilarity"
          /\ fnArgs \in NameInputs \X NameInputs
          /\ tz = "utc"
       \/ /\ fnName = "matchDOB"
          /\ fnArgs \in DobInputs \X DobInputs
          /\ tz \in TimeZones

\* one call of calculateMatchScore on a query and a candidate
InitScore ==
    /\ SimilarityUnused
    /\ SearchUnused
    /\ UpdateUnused
    /\ PopupUnused
    /\ fnPc = "args"
    /\ fnRet = <<>>
    /\ fnName = "calculateMatchScore"
    /\ fnArgs \in ScoreQueries \X ScoreEntries
    /\ tz \in TimeZones

\* jaroSimilarity(s1, s2) and jaroWinkler(s1, s2)
CallSimilarity ==
    /\ simPc = "args"
    /\ jaroRes' = jaroSimilarity(s1, s2)
    /\ jwRes' = jaroWinkler(s1, s2)
    /\ simPc' = "called"
    /\ UNCHANGED <<s1, s2, jaroSwap, jwSwap>>
    /\ UNCHANGED <<searchVars, fieldVars, updateVars, popupVars>>

\* the same two calls with the arguments swapped
CallSwapped ==
    /\ simPc = "called"
    /\ jaroSwap' = jaroSimilarity(s2, s1)
    /\ jwSwap' = jaroWinkler(s2, s1)
    /\ simPc' = "swapped"
    /\ UNCHANGED <<s1, s2, jaroRes, jwRes>>
    /\ UNCHANGED <<searchVars, fieldVars, updateVars, popupVars>>

\* searchSDN(searchParams, sdnEntries, t); a run makes two calls.  A call
\* that throws returns nothing: matches keeps the value of the call before.
Search(t) ==
    /\ simPc = "idle"
    /\ fnPc = "idle"
    /\ prevThreshold = -1
    /\ thrown' = searchThrows(searchParams, sdnEntries)
    /\ scored' = IF thrown' THEN <<>> ELSE scoreAll(searchParams, sdnEntries, tz)
    /\ matches' = IF thrown' THEN matches ELSE sortedMatches(sdnEntries, scored', t)
    /\ threshold' = t
    /\ prevMatches' = matches
    /\ prevThreshold' = threshold
    /\ searchParams' = paramsAfterSearch(searchParams)
    /\ sdnEntries' = entriesAfterSearch(sdnEntries)
    /\ UNCHANGED tz
    /\ UNCHANGED <<simVars, fieldVars, updateVars, popupVars>>

SearchAny == \E t \in Thresholds : Search(t)

\* searchSDN(searchParams, sdnEntries): the threshold defaults to 85
SearchDefault == Search(DefaultThreshold)

\* normalizeName(text)
CallNormalizeName ==
    /\ fnPc = "args"
    /\ fnName = "normalizeName"
    /\ fnRet' = normalizeName(fnArgs[1])
    /\ fnPc' = "done"
    /\ UNCHANGED <<fnName, fnArgs>>
    /\ UNCHANGED <<simVars, searchVars, updateVars, popupVars>>

\* calculateNameSimilarity(searchName, sdnName)
CallCalculateNameSimilarity ==
    /\ fnPc = "args"
    /\ fnName = "calculateNameSimilarity"
    /\ fnRet' = calculateNameSimilarity(fnArgs[1], fnArgs[2])
    /\ fnPc' = "done"
    /\ UNCHANGED <<fnName, fnArgs>>
    /\ UNCHANGED <<simVars, searchVars, updateVars, popupVars>>

\* matchDOB(searchDOB, sdnDOB)
CallMatchDOB ==
    /\ fnPc = "args"
    /\ fnName = "matchDOB"
    /\ fnRet' = matchDOB(fnArgs[1], fnArgs[2], tz)
    /\ fnPc' = "done"
    /\ UNCHANGED <<fnName, fnArgs>>
    /\ UNCHANGED <<simVars, searchVars, updateVars, popupVars>>

\* time passes while no handler of the background worker runs
Tick ==
    /\ bgPc = "idle"
    /\ \E d \in ClockSteps :
          /\ now + d <= 24 * MaxDays
          /\ now' = now + d
    /\ UNCHANGED <<store, settings, bgPc, trigger, before, downloaded, outcome, loaded>>
    /\ UNCHANGED <<simVars, searchVars, fieldVars, popupVars>>

\* checkAndUpdateSDNData up to its decision: with a recent lastUpdate and a
\* non-empty store it returns { success: true, updated: false }, otherwise it
\* goes on to performSDNUpdate
checkAndUpdateSDNData(event) ==
    /\ bgPc = "idle"
    /\ trigger' = event
    /\ before' = [store |-> store, settings |-> settings, at |-> now]
    /\ downloaded' = {}
    /\ IF ~needsUpdate(settings.lastUpdate, now) /\ getSDNCount(store) > 0
       THEN bgPc' = "idle" /\ outcome' = "uptodate"
       ELSE bgPc' = "perform" /\ outcome' = "none"
    /\ loaded' = NotLoaded
    /\ UNCHANGED <<store, settings, now>>
    /\ UNCHANGED <<simVars, searchVars, fieldVars, popupVars>>

\* chrome.runtime.onStartup
OnStartup == checkAndUpdateSDNData("startup")

\* chrome.runtime.onInstalled with details.reason === "update"
OnInstalledUpdate == checkAndUpdateSDNData("update")

\* chrome.alarms.onAlarm for the alarm ofac-sdn-update
OnAlarm == checkAndUpdateSDNData("alarm")

\* performSDNUpdate: saveSetting("updateStatus", "downloading") and
\* saveSetting("lastError", null)
PerformBegin ==
    /\ bgPc = "perform"
    /\ settings' = [settings EXCEPT !.updateStatus = "downloading", !.lastError = "null"]
    /\ bgPc' = "download"
    /\ UNCHANGED <<store, now, trigger, before, downloaded, outcome, loaded>>
    /\ UNCHANGED <<simVars, searchVars, fieldVars, popupVars>>

\* downloadAndParseSDN() delivers a list
DownloadOk ==
    /\ bgPc = "download"
    /\ downloaded' \in DownloadLists
    /\ bgPc' = "clear"
    /\ UNCHANGED <<store, settings, now, trigger, before, outcome, loaded>>
    /\ UNCHANGED <<simVars, searchVars, fieldVars, popupVars>>

\* downloadAndParseSDN() throws (no network, HTTP error)
DownloadFails ==
    /\ bgPc = "download"
    /\ bgPc' = "catch"
    /\ UNCHANGED <<store, settings, now, trigger, before, downloaded, outcome, loaded>>
    /\ UNCHANGED <<simVars, searchVars, fieldVars, popupVars>>

\* clearSDNEntries(): its own readwrite transaction
ClearOk ==
    /\ bgPc = "clear"
    /\ store' = {}
    /\ bgPc' = "store"
    /\ UNCHANGED <<settings, now, trigger, before, downloaded, outcome, loaded>>
    /\ UNCHANGED <<simVars, searchVars, fieldVars, popupVars>>

ClearFails ==
    /\ bgPc = "clear"
    /\ bgPc' = "catch"
    /\ UNCHANGED <<store, settings, now, trigger, before, downloaded, outcome, loaded>>
    /\ UNCHANGED <<simVars, searchVars, fieldVars, popupVars>>

\* storeSDNEntries(result.entries): one readwrite transaction for all puts
StoreOk ==
    /\ bgPc = "store"
    /\ store' = store \cup downloaded
    /\ bgPc' = "meta"
    /\ UNCHANGED <<settings, now, trigger, before, downloaded, outcome, loaded>>
    /\ UNCHANGED <<simVars, searchVars, fieldVars, popupVars>>

\* a put fails: the transaction is aborted and leaves the store as it was
StoreFails ==
    /\ bgPc = "store"
    /\ bgPc' = "catch"
    /\ UNCHANGED <<store, settings, now, trigger, before, downloaded, outcome, loaded>>
    /\ UNCHANGED <<simVars, searchVars, fieldVars, popupVars>>

\* the four saveSetting calls after the store, and the return of
\* { success: true, updated: true }
SaveMetadata ==
    /\ bgPc = "meta"
    /\ settings' = [lastUpdate |-> now, publishDate |-> publishDateAt(now),
                    entryCount |-> Cardinality(downloaded),
                    updateStatus |-> "complete", lastError |-> settings.lastError]
    /\ outcome' = "updated"
    /\ bgPc' = "idle"
    /\ UNCHANGED <<store, now, trigger, before, downloaded, loaded>>
    /\ UNCHANGED <<simVars, searchVars, fieldVars, popupVars>>

\* the catch block of performSDNUpdate, and the return of { success: false }
CatchError ==
    /\ bgPc = "catch"
    /\ settings' = [settings EXCEPT !.updateStatus = "error", !.lastError = "message"]
    /\ outcome' = "failed"
    /\ bgPc' = "idle"
    /\ UNCHANGED <<store, now, trigger, before, downloaded, loaded>>
    /\ UNCHANGED <<simVars, searchVars, fieldVars, popupVars>>

\* calculateMatchScore(searchParams, sdnEntry)
CallCalculateMatchScore ==
    /\ fnPc = "args"
    /\ fnName = "calculateMatchScore"
    /\ fnRet' = calculateMatchScore(fnArgs[1], fnArgs[2], tz)
    /\ fnPc' = "done"
    /\ UNCHANGED <<fnName, fnArgs>>
    /\ UNCHANGED <<simVars, searchVars, updateVars, popupVars>>

\* handleSearch with the form holding q.  Without a first and a last name
\* it alerts and returns.  With an empty sdnEntries it reloads the list; the
\* store does not change during a run of the popup, so the list stays empty
\* and the handler throws into its own catch, as it does when searchSDN
\* throws.  Otherwise it displays the result of searchSDN(q, sdnEntries, 85).
HandleSearch(q) ==
    /\ searchParams' = q
    /\ IF (Falsy(q.firstName) /\ Falsy(q.lastName))
          \/ Len(sdnEntries) = 0
          \/ searchThrows(q, sdnEntries)
       THEN /\ UNCHANGED <<scored, threshold, matches>>
            /\ UNCHANGED popupVars
       ELSE /\ scored' = scoreAll(q, sdnEntries, tz)
            /\ threshold' = DefaultThreshold
            /\ matches' = sortedMatches(sdnEntries, scored', DefaultThreshold)
            /\ currentSearchResult' = [present |-> TRUE, searchParams |-> q, matches |-> matches']
            /\ resultsContent' = resultCard(matches')
            /\ UNCHANGED certificate
    /\ UNCHANGED <<sdnEntries, prevThreshold, prevMatches, tz, thrown>>
    /\ UNCHANGED <<simVars, fieldVars, updateVars>>

SubmitSearch == \E q \in PopupQueries : HandleSearch(q)

\* clearResults
ClearResults ==
    /\ resultsContent' = ""
    /\ currentSearchResult' = NoSearchResult
    /\ UNCHANGED certificate
    /\ UNCHANGED <<simVars, searchVars, fieldVars, updateVars>>

\* a click on #printCertBtn, possible while the button is in the DOM:
\* printCertificate writes the certificate of currentSearchResult
ClickPrint ==
    /\ printButtonShown(resultsContent)
    /\ IF ~currentSearchResult.present
       THEN UNCHANGED certificate
       ELSE certificate' = [printed |-> TRUE,
                            searchParams |-> currentSearchResult.searchParams,
                            matchCount |-> Len(currentSearchResult.matches)]
    /\ UNCHANGED <<resultsContent, currentSearchResult>>
    /\ UNCHANGED <<simVars, searchVars, fieldVars, updateVars>>

\* loadSDNEntries in the popup: getAllSDNEntries() in a readonly transaction
\* of its own, which the browser orders before or after each readwrite
\* transaction of the background worker
PopupRead ==
    /\ loaded' = [taken |-> TRUE, list |-> store, during |-> bgPc]
    /\ UNCHANGED <<store, settings, now, bgPc, trigger, before, downloaded, outcome>>
    /\ UNCHANGED <<simVars, searchVars, fieldVars, popupVars>>

NextSimilarity == CallSimilarity \/ CallSwapped

NextSearch == SearchAny \/ SearchDefault

NextFields ==
    \/ CallNormalizeName
    \/ CallCalculateNameSimilarity
    \/ CallMatchDOB

NextUpdate ==
    \/ Tick
    \/ OnStartup \/ OnInstalledUpdate \/ OnAlarm
    \/ PerformBegin
    \/ DownloadOk \/ DownloadFails
    \/ ClearOk \/ ClearFails
    \/ StoreOk \/ StoreFails
    \/ SaveMetadata
    \/ CatchError
    \/ PopupRead

NextPopup == SubmitSearch \/ ClearResults \/ ClickPrint

Next == CallSimilarity \/ CallSwapped \/ SearchAny \/ SearchDefault

SpecSimilarity == InitSimilarity /\ [][NextSimilarity]_vars

SpecSearch == InitSearch /\ [][NextSearch]_vars

SpecFields == InitFields /\ [][NextFields]_vars

NextScore == CallCalculateMatchScore

SpecScore == InitScore /\ [][NextScore]_vars

SpecRobust == InitRobust /\ [][NextSearch]_vars

SpecUpdate == InitUpdate /\ [][NextUpdate]_vars

SpecPopup == InitPopup /\ [][NextPopup]_vars

Spec == Init /\ [][Next]_vars

(***************************************************************************)
(* Properties.                                                             *)
(***************************************************************************)
Called == simPc \in {"called", "swapped"}

Searched == simPc = "idle" /\ threshold # -1

SearchedTwice == Searched /\ prevThreshold # -1

\* positions of the input whose candidate the loop scored at or above t
Kept(t) == {i \in 1..Len(sdnEntries) : scored[i].score >= t}

\* the input candidates whose score is sc, in input order
RECURSIVE InputWithScore(_, _)
InputWithScore(sc, i) ==
    IF i > Len(sdnEntries) THEN <<>>
    ELSE (IF scored[i].score = sc THEN <<sdnEntries[i]>> ELSE <<>>) \o InputWithScore(sc, i + 1)

Count(list, e) == Cardinality({i \in 1..Len(list) : list[i] = e})

EntriesOf(list) == [i \in 1..Len(list) |-> list[i].entry]

InUnit(x) == RLeq(Zero, x) /\ RLeq(x, One)

RECURSIVE IsSubseq(_, _)
IsSubseq(sub, list) ==
    IF sub = <<>> THEN TRUE
    ELSE IF list = <<>> THEN FALSE
    ELSE IF Head(sub) = Head(list) THEN IsSubseq(Tail(sub), Tail(list))
    ELSE IsSubseq(sub, Tail(list))

\* length of the common leading substring of the lower-cased strings, capped at 4
LeadLen(a, b) ==
    Cardinality({n \in 1..Min(4, Min(Len(a), Len(b))) :
                    \A k \in 1..n : toLowerCase(a)[k] = toLowerCase(b)[k]})

\* C1: searchSDN with the query John Smith born 1975-01-01, the candidates
\* Jon Smith (same date of birth) and Alice Jones, and threshold 85 returns
\* exactly one result, the Jon Smith record, with dobMatch = true and the
\* reason "Date of birth matches" in its details.
C1_EndToEnd ==
    (Searched /\ searchParams = QueryJohnSmith
        /\ sdnEntries = <<EntryJonSmith, EntryAliceJones>> /\ threshold = 85)
    => /\ Len(matches) = 1
       /\ matches[1].entry = EntryJonSmith
       /\ matches[1].dobMatch = TRUE
       /\ \E i \in 1..Len(matches[1].details) : matches[1].details[i] = DobReason

\* C2: searchSDN returns exactly the candidates whose calculateMatchScore
\* score is >= threshold, each once per occurrence in the input and each with
\* that score; an empty candidate collection yields an empty list.
C2_ExactlyAtOrAboveThreshold ==
    Searched =>
        /\ scored = scoreAll(searchParams, sdnEntries, tz)
        /\ Len(matches) = Cardinality(Kept(threshold))
        /\ \A i \in Kept(threshold) :
              Count(matches, matchEntry(sdnEntries[i], scored[i]))
                  = Cardinality({k \in Kept(threshold) :
                        sdnEntries[k] = sdnEntries[i] /\ scored[k] = scored[i]})
        /\ \A i \in 1..Len(matches) : matches[i].score >= threshold
        /\ (sdnEntries = <<>> => matches = <<>>)

C2_Witness ==
    /\ Searched
    /\ Len(matches) >= 1
    /\ Len(matches) < Len(sdnEntries)
    /\ matches[1].score = threshold

\* C3: in the returned list a result that comes before another has a score
\* at least as high, and results with equal scores keep the relative order
\* their candidates had in the input collection.
C3_SortedStable ==
    Searched =>
        /\ \A i, j \in 1..Len(matches) : i < j => matches[i].score >= matches[j].score
        /\ \A sc \in {matches[i].score : i \in 1..Len(matches)} :
              EntriesOf(SelectSeq(matches, LAMBDA m : m.score = sc))
                  = InputWithScore(sc, 1)

C3_Witness ==
    /\ Searched
    /\ Len(matches) = 2
    /\ matches[1].score = matches[2].score
    /\ matches[1].entry # matches[2].entry

\* C4: for the same query and candidates and thresholds t1 <= t2, the list
\* returned with t2 is a subsequence of the list returned with t1.
C4_ThresholdMonotone ==
    SearchedTwice =>
        /\ (prevThreshold <= threshold => IsSubseq(matches, prevMatches))
        /\ (threshold <= prevThreshold => IsSubseq(prevMatches, matches))

C4_Witness ==
    /\ SearchedTwice
    /\ prevThreshold < threshold
    /\ Len(matches) >= 1
    /\ Len(matches) < Len(prevMatches)

\* C5: jaroSimilarity and jaroWinkler (default scaling 0.1) return a value
\* in [0,1], and the nameScore, addressScore and overall score produced by
\* calculateMatchScore are integers in [0,100].
C5_ScoresBounded ==
    /\ Called => InUnit(jaroRes) /\ InUnit(jwRes)
    /\ simPc = "swapped" => InUnit(jaroSwap) /\ InUnit(jwSwap)
    /\ \A i \in 1..Len(scored) :
          /\ scored[i].score \in 0..100
          /\ scored[i].nameScore \in 0..100
          /\ scored[i].addressScore \in 0..100
    /\ \A i \in 1..Len(matches) :
          /\ matches[i].score \in 0..100
          /\ matches[i].nameScore \in 0..100
          /\ matches[i].addressScore \in 0..100

C5_Witness ==
    /\ Called
    /\ jaroRes # One /\ jaroRes # Zero
    /\ RLeq(jaroRes, jwRes) /\ jwRes # jaroRes /\ jwRes # One

\* C6: for strings that are identical after lower-casing, jaroSimilarity and
\* jaroWinkler are exactly 1.0, including one-character strings that differ
\* only in case.
C6_IdenticalAfterLowerCasing ==
    (Called /\ toLowerCase(s1) = toLowerCase(s2)) => jaroRes = One /\ jwRes = One

\* C7: jaroSimilarity and jaroWinkler return exactly 0.0 whenever at least
\* one of the two arguments is the empty string (as stated: also when both
\* are empty).
C7_EmptyIsZero_Original ==
    (Called /\ (s1 = <<>> \/ s2 = <<>>)) => jaroRes = Zero /\ jwRes = Zero

\* C7 (amended): jaroSimilarity and jaroWinkler return exactly 0.0 whenever
\* exactly one of the two arguments is the empty string, and exactly 1.0
\* when both are empty.
C7_EmptyIsZero ==
    Called =>
        /\ ((s1 = <<>>) # (s2 = <<>>) => jaroRes = Zero /\ jwRes = Zero)
        /\ (s1 = <<>> /\ s2 = <<>> => jaroRes = One /\ jwRes = One)

C7_Witness == Called /\ s1 = <<>> /\ s2 # <<>> /\ jaroRes = Zero

\* C8: jaroSimilarity(a,b) = jaroSimilarity(b,a) and
\* jaroWinkler(a,b) = jaroWinkler(b,a).
C8_Symmetric ==
    simPc = "swapped" => jaroRes = jaroSwap /\ jwRes = jwSwap

C8_Witness ==
    /\ simPc = "swapped"
    /\ Len(s1) # Len(s2)
    /\ jaroRes # Zero /\ jaroRes # One
    /\ jaroSwap = jaroRes

\* C9: for non-empty strings, jaroWinkler = base + L * p * (1 - base) with
\* base = jaroSimilarity, p = 0.1 and L the length of the common leading
\* substring of the lower-cased strings capped at 4; hence jaroWinkler >=
\* jaroSimilarity whenever the strings share a non-empty prefix.
C9_PrefixBoost ==
    (Called /\ s1 # <<>> /\ s2 # <<>>) =>
        /\ jwRes = RAdd(jaroRes, RMul(Rat(LeadLen(s1, s2), 10), RSub(One, jaroRes)))
        /\ (LeadLen(s1, s2) > 0 => RLeq(jaroRes, jwRes))

C9_Witness ==
    /\ Called
    /\ s1 # s2
    /\ LeadLen(s1, s2) = 1
    /\ Len(s1) >= 3 /\ Len(s2) >= 3
    /\ toLowerCase(s1)[3] = toLowerCase(s2)[3]
    /\ jaroRes # One /\ jwRes # jaroRes

\* C10: jaroSimilarity("martha","marhta") = 17/18 and jaroWinkler with the
\* default scaling raises it by the boost for a shared 2-character prefix,
\* to 17/18 + 2 * 0.1 * (1/18) (as stated).
C10_Martha_Original ==
    (Called /\ s1 = martha /\ s2 = marhta) =>
        /\ jaroRes = Rat(17, 18)
        /\ jwRes = RAdd(Rat(17, 18), Rat(2, 180))

\* C10 (amended): jaroSimilarity("martha","marhta") = 17/18 and jaroWinkler
\* with the default scaling raises it by the boost for the shared
\* 3-character prefix "mar", to 17/18 + 3 * 0.1 * (1/18) = 173/180.
C10_Martha ==
    (Called /\ s1 = martha /\ s2 = marhta) =>
        /\ jaroRes = Rat(17, 18)
        /\ jwRes = RAdd(Rat(17, 18), Rat(3, 180))

C10_Witness == Called /\ s1 = martha /\ s2 = marhta /\ jwRes = Rat(173, 180)

\* C16: for a query with no name, no date of birth, no address and no
\* identifier every candidate gets a score of at most 25, which cannot reach
\* the threshold: searchSDN at threshold 85 (and at any threshold above 25)
\* returns an empty list and raises no error.
C16_EmptyQueryFindsNothing ==
    (Searched /\ searchParams = QueryEmpty) =>
        /\ ~thrown
        /\ \A i \in 1..Len(sdnEntries) : scored[i].score <= 25
        /\ threshold > 25 => matches = <<>>

C16_Witness ==
    /\ Searched
    /\ searchParams = QueryEmpty
    /\ threshold = DefaultThreshold
    /\ sdnEntries = <<EntryJohnIran, EntryJohnIraq>>
    /\ matches = <<>>

C18_MalformedCandidateSkipped ==
    Searched =>
        /\ ~thrown
        /\ \A i \in 1..Len(sdnEntries) :
              (/\ ~scoreThrows(searchParams, sdnEntries[i])
               /\ calculateMatchScore(searchParams, sdnEntries[i], tz).score >= threshold)
                  => \E j \in 1..Len(matches) : matches[j].entry = sdnEntries[i]

\* twenty times nameScore*0.6 + (20 if dobMatch) + addressScore*0.15 + (5 if idMatch)
Sum20(r) ==
    12 * r.nameScore + (IF r.dobMatch THEN 400 ELSE 0)
        + 3 * r.addressScore + (IF r.idMatch THEN 100 ELSE 0)

\* round(x / 20), halves rounded up
Round20(x) == (x + 10) \div 20

\* C20: for every query and candidate the overall score returned by
\* calculateMatchScore equals round(min(100, nameScore*0.6 + (20 if dobMatch
\* else 0) + addressScore*0.15 + (5 if idMatch else 0))), over the values
\* returned in the same result.
C20_OverallScore ==
    Searched =>
        /\ \A i \in 1..Len(scored) : scored[i].score = Round20(Min(2000, Sum20(scored[i])))
        /\ \A i \in 1..Len(matches) : matches[i].score = Round20(Min(2000, Sum20(matches[i])))

C20_Witness ==
    /\ Searched
    /\ Len(scored) >= 1
    /\ scored[1].nameScore = 100 /\ scored[1].dobMatch /\ scored[1].idMatch
    /\ scored[1].addressScore = 40
    /\ scored[1].score = 91
    /\ Len(matches) >= 1 /\ matches[1].score = 91

\* C27: every result returned by searchSDN at the default threshold 85 has
\* dobMatch = true: without a date-of-birth match the overall score is at
\* most 80, so a query without a date of birth never produces a match, even
\* for an identical name.
C27_MatchNeedsDob ==
    Searched =>
        /\ \A i \in 1..Len(scored) : ~scored[i].dobMatch => scored[i].score <= 80
        /\ threshold = DefaultThreshold =>
              /\ \A i \in 1..Len(matches) : matches[i].dobMatch
              /\ Falsy(searchParams.dob) => matches = <<>>

C27_Witness ==
    /\ Searched
    /\ threshold = DefaultThreshold
    /\ searchParams = QueryJon
    /\ Len(scored) >= 1 /\ scored[1].nameScore = 100 /\ ~scored[1].dobMatch
    /\ matches = <<>>

(***************************************************************************)
(* Properties of the field-level functions (SpecFields).                   *)
(***************************************************************************)
Returned(name) == fnName = name /\ fnPc = "done"

IsAlnum(c) == c \in LowerLetters \cup Digits

\* the words of text (maximal runs of characters that are ASCII letters or
\* digits once lower-cased), lower-cased and joined by single spaces
RECURSIVE JoinedWords(_, _, _)
JoinedWords(text, i, out) ==
    IF i > Len(text) THEN out
    ELSE IF IsAlnum(toLowerCaseChar(text[i]))
         THEN JoinedWords(text, i + 1,
                  (IF out # <<>> /\ ~IsAlnum(toLowerCaseChar(text[i - 1]))
                   THEN Append(out, " ") ELSE out) \o <<toLowerCaseChar(text[i])>>)
         ELSE JoinedWords(text, i + 1, out)

\* C11: for every input text normalizeName returns a string made only of
\* lowercase ASCII letters, digits and single spaces, with no leading or
\* trailing space and no two consecutive spaces, which is the lower-cased
\* words of the input joined by single spaces ("O'Brien-Smith  Jr." gives
\* "o brien smith jr"); an absent or empty input gives the empty string.
C11_NormalizeName ==
    Returned("normalizeName") =>
        LET text == fnArgs[1]
            r == fnRet
        IN  /\ \A i \in 1..Len(r) : IsAlnum(r[i]) \/ r[i] = " "
            /\ r # <<>> => r[1] # " " /\ r[Len(r)] # " "
            /\ \A i \in 1..(Len(r) - 1) : ~(r[i] = " " /\ r[i + 1] = " ")
            /\ Falsy(text) => r = <<>>
            /\ text # UNDEFINED => r = JoinedWords(text, 1, <<>>)
            /\ text = OBrien => r = OBrienNormalized

C11_Witness ==
    /\ Returned("normalizeName")
    /\ fnArgs[1] = OBrien
    /\ fnRet = OBrienNormalized

HasAlnum(text) == ~Falsy(text) /\ \E i \in 1..Len(text) : IsAlnum(toLowerCaseChar(text[i]))

\* both names have the same first name, the same last name and no middle name
IdenticalNoMiddle(q, c) ==
    /\ q.firstName = c.firstName
    /\ q.lastName = c.lastName
    /\ Falsy(q.middleName) /\ Falsy(c.middleName)

\* C12 as stated: for every pair of names whose first names are identical,
\* whose last names are identical and that have no middle name on either
\* side, calculateNameSimilarity returns 100.
C12_IdenticalNames_Original ==
    Returned("calculateNameSimilarity") /\ IdenticalNoMiddle(fnArgs[1], fnArgs[2])
        => fnRet = 100

\* C12 amended: such a pair scores 100 when the first or the last name holds
\* at least one ASCII letter or digit; when both normalize to the empty
\* string there is no weight and the score is 0.
C12_IdenticalNames ==
    Returned("calculateNameSimilarity") /\ IdenticalNoMiddle(fnArgs[1], fnArgs[2])
        => fnRet = (IF HasAlnum(fnArgs[1].firstName) \/ HasAlnum(fnArgs[1].lastName)
                    THEN 100 ELSE 0)

C12_Witness ==
    /\ Returned("calculateNameSimilarity")
    /\ IdenticalNoMiddle(fnArgs[1], fnArgs[2])
    /\ fnArgs[1].firstName = John /\ fnArgs[1].lastName = <<>>
    /\ fnArgs[2].middleName = UNDEFINED
    /\ fnRet = 100

\* C13: matchDOB returns true when the two strings denote the same calendar
\* date written in different formats ("1980-05-12" and "05/12/1980") and
\* false when they denote two different calendar dates ("1980-05-12" and
\* "1980-05-13").
C13_SameCalendarDate ==
    Returned("matchDOB") =>
        /\ fnArgs \in {<<Dob1980, Dob1980US>>, <<Dob1980US, Dob1980>>} => fnRet = TRUE
        /\ fnArgs \in {<<Dob1980, Dob1980Next>>, <<Dob1980US, Dob1980Next>>} => fnRet = FALSE

\* C14: matchDOB returns false whenever either date-of-birth string is
\* absent, empty, or not parseable as a calendar date (including when both
\* strings contain no digits at all).
C14_NoMatchWithoutDate ==
    Returned("matchDOB") /\ (\E i \in 1..2 : Falsy(fnArgs[i]) \/ DateParse(fnArgs[i]) = NaN)
        => fnRet = FALSE

Without(name, part) == [name EXCEPT ![part] = <<>>]

\* a candidate name part that has no character in common with any query
Mismatch == <<"z", "z", "z">>

\* the score over the remaining parts only: part left out on both sides
ScoreWithout(part) ==
    calculateNameSimilarity(Without(fnArgs[1], part), Without(fnArgs[2], part))

\* C15 as stated: a name part (first, middle or last) that is absent or empty
\* on the query side or on the candidate side is excluded from name scoring:
\* the name score equals the score computed over the remaining parts only.
C15_AbsentPartExcluded_Original ==
    Returned("calculateNameSimilarity") =>
        \A part \in {"firstName", "middleName", "lastName"} :
            Falsy(fnArgs[1][part]) \/ Falsy(fnArgs[2][part]) => fnRet = ScoreWithout(part)

\* C15 amended: a part that is absent or empty on the query side, and a
\* middle name that is absent or empty on either side, is excluded: the name
\* score equals the score over the remaining parts only.  A first or last
\* name that only the candidate lacks is scored as a complete mismatch
\* (similarity 0 with its full weight).
C15_AbsentPartExcluded ==
    Returned("calculateNameSimilarity") =>
        /\ \A part \in {"firstName", "middleName", "lastName"} :
               Falsy(fnArgs[1][part]) => fnRet = ScoreWithout(part)
        /\ Falsy(fnArgs[2].middleName) => fnRet = ScoreWithout("middleName")
        /\ \A part \in {"firstName", "lastName"} :
               Falsy(fnArgs[2][part])
                   => fnRet = calculateNameSimilarity(fnArgs[1], [fnArgs[2] EXCEPT ![part] = Mismatch])

C15_Witness ==
    /\ Returned("calculateNameSimilarity")
    /\ fnArgs[1] = Name(Jon, <<>>, John)
    /\ fnArgs[2] = Name(<<>>, UNDEFINED, John)
    /\ fnRet = 59

(***************************************************************************)
(* Properties of the background worker (SpecUpdate).                       *)
(***************************************************************************)
\* a handler has run checkAndUpdateSDNData and the call has returned
CheckReturned == trigger # "none" /\ bgPc = "idle"

\* what the call found: no lastUpdate recorded, a lastUpdate at least 24
\* hours old, or a store with zero entries
Stale ==
    \/ before.settings.lastUpdate = -1
    \/ before.at - before.settings.lastUpdate >= 24
    \/ before.store = {}

\* the call went on to performSDNUpdate
UpdateStarted == bgPc # "idle" \/ outcome \in {"updated", "failed"}

\* the stored list is the downloaded one, recorded as of the time of the call
Replaced ==
    /\ store = downloaded
    /\ settings.lastUpdate = before.at
    /\ settings.entryCount = Cardinality(downloaded)

Untouched == store = before.store /\ settings = before.settings

PartSimilarity(part) ==
    LET q == normalizeName(fnArgs[1][part])
        c == normalizeName(fnArgs[2][part])
    IN  IF q # <<>> /\ c # <<>> THEN jaroWinkler(q, c) ELSE Zero

\* last and first count when the query side is non-empty after
\* normalization, middle when both sides are
Included(part) ==
    IF part = "middleName"
    THEN normalizeName(fnArgs[1][part]) # <<>> /\ normalizeName(fnArgs[2][part]) # <<>>
    ELSE normalizeName(fnArgs[1][part]) # <<>>

PartWeight(part) ==
    IF ~Included(part) THEN Zero
    ELSE IF part = "lastName" THEN <<1, 2>>
    ELSE IF part = "firstName" THEN <<7, 20>>
    ELSE <<3, 20>>

WeightedSum ==
    RAdd(RAdd(RMul(PartSimilarity("lastName"), PartWeight("lastName")),
              RMul(PartSimilarity("firstName"), PartWeight("firstName"))),
         RMul(PartSimilarity("middleName"), PartWeight("middleName")))

TotalWeight ==
    RAdd(RAdd(PartWeight("lastName"), PartWeight("firstName")), PartWeight("middleName"))

\* C21: calculateNameSimilarity returns round(100 * weighted_sum /
\* total_weight), where last (0.50) and first (0.35) are included exactly
\* when the query side is non-empty after normalization (similarity 0 when
\* the candidate side is empty), middle (0.15) exactly when both middle names
\* are non-empty, and the result is 0 when no part is included.
C21_WeightedNameScore ==
    Returned("calculateNameSimilarity") =>
        fnRet = (IF TotalWeight = Zero THEN 0
                 ELSE MathRound(RMul(<<100, 1>>, RDiv(WeightedSum, TotalWeight))))

C21_Witness ==
    /\ Returned("calculateNameSimilarity")
    /\ fnArgs[1] = Name(Jon, <<"A", ".">>, John)
    /\ fnArgs[2] = Name(John, <<"A", ".">>, <<>>)
    /\ fnRet = 48

\* C22: when the middle name is empty on the query side or on the candidate
\* side, calculateNameSimilarity returns the same score as when the middle
\* name is empty on both sides: its absence never lowers the name score.
C22_MiddleAbsenceNeutral ==
    (/\ Returned("calculateNameSimilarity")
     /\ (~HasAlnum(fnArgs[1].middleName) \/ ~HasAlnum(fnArgs[2].middleName)))
        => fnRet = calculateNameSimilarity([fnArgs[1] EXCEPT !.middleName = <<>>],
                                           [fnArgs[2] EXCEPT !.middleName = <<>>])

C22_Witness ==
    /\ Returned("calculateNameSimilarity")
    /\ fnArgs[1] = Name(John, <<"A", ".">>, Jon)
    /\ fnArgs[2] = Name(John, UNDEFINED, Jon)
    /\ fnRet = 100

AddressParts == {"country", "city", "state", "address"}

\* the query and the candidate both supply the address part
BothSupply(part) == ~Falsy(fnArgs[1][part]) /\ ~Falsy(fnArgs[2][part])

AddressWeight(part) ==
    CASE part = "country" -> <<40, 1>> [] part = "city" -> <<25, 1>>
      [] part = "state" -> <<20, 1>> [] part = "address" -> <<15, 1>>

\* weight * similarity of a part both sides supply, 0 for any other part
Contribution(part) ==
    IF BothSupply(part)
    THEN RMul(AddressWeight(part),
              jaroWinkler(normalizeName(fnArgs[1][part]), normalizeName(fnArgs[2][part])))
    ELSE Zero

\* the same, with similarity 0 when a side is empty after normalization
ContributionNonEmpty(part) ==
    IF normalizeName(fnArgs[1][part]) = <<>> \/ normalizeName(fnArgs[2][part]) = <<>>
    THEN Zero
    ELSE Contribution(part)

\* C23: in the result of calculateMatchScore, addressScore equals round of
\* the sum, over the address parts that both the query and the candidate
\* supply, of weight * similarity (country 40, city 25, state 20, street 15,
\* no renormalization), and 0 when no part is supplied by both; a street
\* supplied by both sides contributes even when the query supplies no
\* country, city or state.
C23_AddressScore ==
    Returned("calculateMatchScore") =>
        fnRet.addressScore =
            (IF \E part \in AddressParts : BothSupply(part)
             THEN MathRound(RAdd(RAdd(Contribution("country"), Contribution("city")),
                                 RAdd(Contribution("state"), Contribution("address"))))
             ELSE 0)

\* C24: every field comparison in which either side is empty after
\* normalization yields similarity 0, for the first and last name in
\* calculateNameSimilarity and for each address part compared by
\* calculateAddressSimilarity: a value that normalizes to the empty string
\* (punctuation only) never counts as a match.
C24_EmptyNeverMatches ==
    /\ Returned("calculateNameSimilarity") =>
          \A part \in {"firstName", "lastName"} :
              (~HasAlnum(fnArgs[1][part]) \/ ~HasAlnum(fnArgs[2][part]))
                  => fnRet = calculateNameSimilarity(fnArgs[1], [fnArgs[2] EXCEPT ![part] = Mismatch])
    /\ (/\ Returned("calculateMatchScore")
        /\ \E part \in {"country", "city", "state"} : ~Falsy(fnArgs[1][part]))
          => fnRet.addressScore =
                 MathRound(RAdd(RAdd(ContributionNonEmpty("country"), ContributionNonEmpty("city")),
                                RAdd(ContributionNonEmpty("state"), ContributionNonEmpty("address"))))

\* positions of the candidate's identifiers whose digit-only form equals
\* that of the query identifier
EqualIds ==
    IF Falsy(fnArgs[1].idNumber) \/ ~fnArgs[2].ids.present THEN {}
    ELSE {i \in 1..Len(fnArgs[2].ids.list) :
             digitsOnly(Str(fnArgs[2].ids.list[i].number)) = digitsOnly(fnArgs[1].idNumber)}

IdReasons == SelectSeq(fnRet.details, LAMBDA d : d.text = "ID number matches")

\* C25: calculateMatchScore sets idMatch to true if and only if the query
\* has an identifier and the digit-only form of at least one candidate
\* identifier equals that of the query identifier; the identifiers are
\* scanned in storage order and the scan stops at the first equal one, whose
\* kind is the one named in the reason.
C25_IdMatch ==
    Returned("calculateMatchScore") =>
        /\ fnRet.idMatch <=> EqualIds # {}
        /\ fnRet.idMatch =>
              LET first == CHOOSE i \in EqualIds : \A j \in EqualIds : i <= j
              IN  IdReasons = <<IdReason(fnArgs[2].ids.list[first].type)>>

C25_Witness ==
    /\ Returned("calculateMatchScore")
    /\ fnArgs[1] = QueryFull
    /\ fnArgs[2] = EntryMainStreet
    /\ EqualIds = {1, 2}
    /\ fnRet.idMatch
    /\ IdReasons = <<IdReason(IdType)>>

\* C26: in every result of calculateMatchScore the details list contains
\* "Date of birth matches" exactly when dobMatch is true and exactly one "ID
\* number matches (<kind>)" entry exactly when idMatch is true, nothing else,
\* and the date-of-birth reason comes before the identifier reason.
C26_Details ==
    Returned("calculateMatchScore") =>
        LET d == fnRet.details
            nDob == IF fnRet.dobMatch THEN 1 ELSE 0
            nId == IF fnRet.idMatch THEN 1 ELSE 0
        IN  /\ Len(d) = nDob + nId
            /\ fnRet.dobMatch => d[1] = DobReason
            /\ fnRet.idMatch => d[nDob + 1].text = "ID number matches"
                                /\ \E i \in 1..Len(fnArgs[2].ids.list) :
                                      d[nDob + 1].arg = fnArgs[2].ids.list[i].type

C26_Witness ==
    /\ Returned("calculateMatchScore")
    /\ fnRet.dobMatch /\ fnRet.idMatch
    /\ fnRet.details = <<DobReason, IdReason(Passport)>>

\* C29: performSDNUpdate is all-or-nothing: whenever it returns
\* success:false (the download, the clear or the bulk store failed), the SDN
\* store holds the same entries and the lastUpdate, publishDate and
\* entryCount settings hold the same values as before the call, and
\* updateStatus is "error" with lastError set.
C29_UpdateAllOrNothing ==
    (CheckReturned /\ outcome = "failed") =>
        /\ store = before.store
        /\ settings.lastUpdate = before.settings.lastUpdate
        /\ settings.publishDate = before.settings.publishDate
        /\ settings.entryCount = before.settings.entryCount
        /\ settings.updateStatus = "error"
        /\ settings.lastError = "message"

\* C30: a getAllSDNEntries read by the popup that overlaps a background
\* update returns either the complete list stored before the update or the
\* complete newly downloaded list, never an empty or partial list, under
\* every interleaving of the read with the update's clear and store steps.
C30_ReadSeesOldOrNew ==
    (loaded.taken /\ loaded.during # "idle") =>
        \/ loaded.list = before.store
        \/ loaded.during \in {"clear", "store", "meta", "catch"} /\ loaded.list = downloaded

(***************************************************************************)
(* Properties of the popup (SpecPopup).                                    *)
(***************************************************************************)
\* C28: after any sequence of searches and clear-results actions the print
\* action that produces the "NO MATCH FOUND - CLEARED" certificate is
\* available if and only if the currently displayed search result has zero
\* matches; it is never available while the displayed result lists potential
\* matches or after the results were cleared.
C28_PrintOnlyWhenCleared ==
    /\ printButtonShown(resultsContent)
          <=> (currentSearchResult.present /\ Len(currentSearchResult.matches) = 0)
    /\ resultsContent = "match"
          <=> (currentSearchResult.present /\ Len(currentSearchResult.matches) > 0)
    /\ resultsContent = "" <=> ~currentSearchResult.present
    /\ certificate.printed => certificate.matchCount = 0

C28_Witness ==
    /\ certificate.printed
    /\ certificate.searchParams = QueryJohnSmith
    /\ resultsContent = "match"
    /\ currentSearchResult.searchParams = QueryFull
    /\ ~printButtonShown(resultsContent)

====
